---- MODULE Spec2Model ----
(***************************************************************************)
(* Chunk streaming and structure registry of the 3D sandbox (src/main.js). *)
(*                                                                         *)
(* Representation.                                                         *)
(*  - World x and z are integers (world units); y is in hundredths of a    *)
(*    world unit, so that the boat's 0.25 is 25.                           *)
(*  - A JavaScript string is a sequence of one-character strings.          *)
(*  - A Vector3 / Euler object is a cell of `heap`, named by its index;    *)
(*    two fields alias each other exactly when they hold the same index.   *)
(*  - A Map with insertion order and values (playerStructures) is a        *)
(*    sequence of [id, val] records; the chunk Map, whose iteration order  *)
(*    does not influence the result of forEach-with-delete, is a function  *)
(*    from keys to groups.                                                 *)
(*  - A NaN result of Number() is the empty sequence, a number n is <<n>>. *)
(*                                                                         *)
(* Module evaluation order.  main.js:14 calls animate() before main.js:54  *)
(* (const keys) and main.js:63 (let vehicles) have been evaluated, so in   *)
(* the file as written updatePlayer() and handleKeys() raise a             *)
(* ReferenceError on their first statement.  The actions below are the     *)
(* handler bodies with these two bindings initialised, i.e. the state in   *)
(* which the bodies execute at all.                                        *)
(***************************************************************************)
EXTENDS Integers, Sequences, FiniteSets, TLC

VARIABLES
    pc,               \* "init": inside init() before line 50; "running"; "aborted"
    player,           \* player.x/y/z (line 5) and player.mesh.position (mx, my, mz)
    keys,             \* the keys object (line 54), on the four keys that are read
    chunks,           \* Map chunkID => group (line 6)
    scene,            \* children of the THREE.Scene: [groups, meshes]
    nextGid,          \* identity of the next THREE.Group allocated
    vehicles,         \* the vehicles array (line 63)
    heap,             \* Vector3 / Euler objects
    playerStructures, \* Map id => structure (line 7), in insertion order
    now,              \* Date.now()
    frames,           \* number of animate() calls so far
    failures,         \* number of createChunk() calls that threw so far
    tick,             \* what the last updateChunks() call did
    primitive         \* the Mesh the running createChunk() call has added last

vars == <<pc, player, keys, chunks, scene, nextGid, vehicles, heap,
          playerStructures, now, frames, failures, tick, primitive>>

----------------------------------------------------------------------------
(* Program constants *)
chunkSize == 50
loadedRadius == 2

(* Bounds of the model *)
MaxFrames == 1       \* animate() calls, under every input
MaxWalkFrames == 2   \* animate() calls, under the input of a walk
MaxBuilds == 2       \* buildVehicle() calls
MaxFailures == 2     \* createChunk() calls that throw
MaxFailIndex == 2    \* the createChunk() call of a tick that throws is among its first MaxFailIndex
NumRandoms == 1      \* distinct values Math.random() returns to saveStructure()
RandomGrid == 4      \* Math.random() returns k/RandomGrid in createChunk(), k = 0 .. RandomGrid-1

Deltas == {1, 5, 26}          \* clock.getDelta(), seconds
Bobs == {-1, 1}               \* Math.sin(Date.now()*0.001)*delta, hundredths
MoveKeys == {"w", "a", "s", "d"}
BuildKeys == {"p", "b"}
NoKey == <<>>
GenCoords == {<<0, 0>>, <<-1, 2>>, <<3, -2>>}   \* the (cx, cz) createChunk() is followed for

----------------------------------------------------------------------------
(* Strings and numbers *)

DigitChars == <<"0", "1", "2", "3", "4", "5", "6", "7", "8", "9">>

Abs(n) == IF n < 0 THEN -n ELSE n

RECURSIVE NatToString(_)
NatToString(n) ==
    IF n < 10 THEN <<DigitChars[n + 1]>>
    ELSE NatToString(n \div 10) \o <<DigitChars[(n % 10) + 1]>>

\* `${n}` for an integer n
NumberToString(n) == IF n < 0 THEN <<"-">> \o NatToString(-n) ELSE NatToString(n)

DigitValue(c) == (CHOOSE d \in 1..10 : DigitChars[d] = c) - 1

IsDigit(c) == \E d \in 1..10 : DigitChars[d] = c

RECURSIVE DigitsToNat(_)
DigitsToNat(s) ==
    IF Len(s) = 0 THEN 0
    ELSE 10 * DigitsToNat(SubSeq(s, 1, Len(s) - 1)) + DigitValue(s[Len(s)])

\* Number(s) for the strings a key can hold: "" is 0, an optionally signed
\* run of decimal digits is its value, anything else is NaN.
StringToNumber(s) ==
    IF Len(s) = 0 THEN <<0>>
    ELSE LET neg == s[1] = "-"
             body == IF s[1] = "-" \/ s[1] = "+" THEN SubSeq(s, 2, Len(s)) ELSE s
         IN IF Len(body) > 0 /\ \A i \in 1..Len(body) : IsDigit(body[i])
            THEN <<IF neg THEN -DigitsToNat(body) ELSE DigitsToNat(body)>>
            ELSE <<>>

\* s.split(sep) for a one-character separator
RECURSIVE Split(_, _)
Split(s, sep) ==
    IF \A i \in 1..Len(s) : s[i] # sep THEN <<s>>
    ELSE LET i == CHOOSE k \in 1..Len(s) :
                      s[k] = sep /\ \A j \in 1..(k - 1) : s[j] # sep
         IN <<SubSeq(s, 1, i - 1)>> \o Split(SubSeq(s, i + 1, Len(s)), sep)

\* id.split("_").map(Number)
ParseKey(id) ==
    LET parts == Split(id, "_")
    IN [i \in 1..Len(parts) |-> StringToNumber(parts[i])]

\* FloorDiv with truncation toward zero, as (x / size) | 0 computes it
TruncDiv(x, size) == IF x < 0 THEN -((-x) \div size) ELSE x \div size

\* Math.floor(x / chunkSize); \div rounds toward minus infinity
FloorDiv(x, size) == x \div size

\* KeyOf with "-" as the joiner
KeyOfDash(cx, cz) == NumberToString(cx) \o <<"-">> \o NumberToString(cz)

\* `${cx}_${cz}`
KeyOf(cx, cz) == NumberToString(cx) \o <<"_">> \o NumberToString(cz)

chunkID(x, z) == KeyOf(FloorDiv(x, chunkSize), FloorDiv(z, chunkSize))

----------------------------------------------------------------------------
(* Chunk management *)

WindowSide == 2 * loadedRadius + 1

\* LoopCoord with the outer loop written dx < loadedRadius
LoopCoordExclusive(cx, cz, i) ==
    LET dx == IF i \div WindowSide = WindowSide - 1 THEN WindowSide - 2 ELSE i \div WindowSide
    IN <<cx - loadedRadius + dx, cz - loadedRadius + (i % WindowSide)>>

\* the i-th coordinate visited by the two nested loops, i = 0, 1, ...
LoopCoord(cx, cz, i) ==
    <<cx - loadedRadius + (i \div WindowSide), cz - loadedRadius + (i % WindowSide)>>

\* Has without the look-up: every key counts as absent
HasNever(cs, id) == FALSE

\* chunks.has(id)
Has(cs, id) == id \in DOMAIN cs

(* The chunk functions work on a record st of the globals they can reach    *)
(* (chunks, scene, nextGid, playerStructures, vehicles, heap) and of what   *)
(* the running updateChunks() call has done so far.                         *)

\* createChunk taking the group from a pool of the groups unloadChunk()
\* has detached, the oldest first, instead of new THREE.Group()
createChunkRecycled(st, cx, cz, id) ==
    LET free == CHOOSE n \in 1..st.nextGid :
                    /\ n \notin st.scene.groups
                    /\ \A m \in 1..(n - 1) : m \in st.scene.groups
        group == [gid |-> free, cx |-> cx, cz |-> cz]
    IN [st EXCEPT !.scene.groups = @ \cup {group.gid},
                  !.chunks = (id :> group) @@ st.chunks,
                  !.nextGid = @ + 1,
                  !.calls = @ + 1,
                  !.invoked = @ \cup {id},
                  !.created = @ \cup {id}]

\* createChunk(cx, cz, id) completing normally
createChunk(st, cx, cz, id) ==
    LET group == [gid |-> st.nextGid, cx |-> cx, cz |-> cz]
    IN [st EXCEPT !.scene.groups = @ \cup {group.gid},
                  !.chunks = (id :> group) @@ st.chunks,
                  !.nextGid = @ + 1,
                  !.calls = @ + 1,
                  !.invoked = @ \cup {id},
                  !.created = @ \cup {id}]

\* createChunk(cx, cz, id) throwing while it builds the group (lines 120-146):
\* nothing has been added to the scene or to the Map
createChunkThrows(st, cx, cz, id) ==
    [st EXCEPT !.nextGid = @ + 1,
               !.calls = @ + 1,
               !.invoked = @ \cup {id},
               !.failed = id,
               !.outcome = "threw"]

\* the load loops from iteration i on; the failAt-th createChunk() call of
\* the tick throws (none when failAt = 0) and ends the loops
RECURSIVE LoadPass(_, _, _, _, _)
LoadPass(st, cx, cz, i, failAt) ==
    IF i >= WindowSide * WindowSide \/ st.outcome = "threw" THEN st
    ELSE LET c == LoopCoord(cx, cz, i)
             id == KeyOf(c[1], c[2])
         IN IF Has(st.chunks, id) THEN LoadPass(st, cx, cz, i + 1, failAt)
            ELSE IF st.calls + 1 = failAt
                 THEN createChunkThrows(st, c[1], c[2], id)
                 ELSE LoadPass(createChunk(st, c[1], c[2], id), cx, cz, i + 1, failAt)

\* IsFar with >= in place of >
IsFarGeq(id, cx, cz) ==
    LET p == ParseKey(id)
        x == IF Len(p) >= 1 THEN p[1] ELSE <<>>
        z == IF Len(p) >= 2 THEN p[2] ELSE <<>>
    IN \/ (Len(x) = 1 /\ Abs(x[1] - cx) >= loadedRadius)
       \/ (Len(z) = 1 /\ Abs(z[1] - cz) >= loadedRadius)

\* the test of the unload pass for one key; a comparison with NaN or
\* undefined is false
IsFar(id, cx, cz) ==
    LET p == ParseKey(id)
        x == IF Len(p) >= 1 THEN p[1] ELSE <<>>
        z == IF Len(p) >= 2 THEN p[2] ELSE <<>>
    IN \/ (Len(x) = 1 /\ Abs(x[1] - cx) > loadedRadius)
       \/ (Len(z) = 1 /\ Abs(z[1] - cz) > loadedRadius)

Restrict(f, S) == [k \in S |-> f[k]]

\* unloadChunk that also drops the structures standing on the chunk's footprint
unloadChunkSweep(st, id) ==
    IF ~Has(st.chunks, id) THEN st
    ELSE LET Off(e) == ~(/\ FloorDiv(st.heap[e.val.position][1], chunkSize) = st.chunks[id].cx
                         /\ FloorDiv(st.heap[e.val.position][3], chunkSize) = st.chunks[id].cz)
         IN [st EXCEPT !.scene.groups = @ \ {st.chunks[id].gid},
                       !.chunks = Restrict(st.chunks, DOMAIN st.chunks \ {id}),
                       !.unloaded = @ \cup {id},
                       !.playerStructures = SelectSeq(@, Off)]

\* unloadChunk without chunks.delete(id)
unloadChunkNoDelete(st, id) ==
    IF ~Has(st.chunks, id) THEN st
    ELSE [st EXCEPT !.scene.groups = @ \ {st.chunks[id].gid},
                    !.unloaded = @ \cup {id}]

\* unloadChunk without scene.remove(chunk)
unloadChunkNoRemove(st, id) ==
    IF ~Has(st.chunks, id) THEN st
    ELSE [st EXCEPT !.chunks = Restrict(st.chunks, DOMAIN st.chunks \ {id}),
                    !.unloaded = @ \cup {id}]

\* unloadChunk(id)
unloadChunk(st, id) ==
    IF ~Has(st.chunks, id) THEN st
    ELSE [st EXCEPT !.scene.groups = @ \ {st.chunks[id].gid},
                    !.chunks = Restrict(st.chunks, DOMAIN st.chunks \ {id}),
                    !.unloaded = @ \cup {id}]

\* chunks.forEach over the entries todo still to visit: an entry is visited
\* if it is still in the Map when its turn comes, and deleting the visited
\* entry does not disturb the iteration
RECURSIVE UnloadPass(_, _, _, _)
UnloadPass(st, cx, cz, todo) ==
    LET live == todo \cap DOMAIN st.chunks
    IN IF live = {} THEN st
       ELSE LET id == CHOOSE k \in live : TRUE
            IN UnloadPass(IF IsFar(id, cx, cz) THEN unloadChunk(st, id) ELSE st,
                          cx, cz, live \ {id})

\* the state updateChunks() starts from: the globals g, nothing done yet;
\* loaded is the Map as the unload pass finds it, or as a throw leaves it
TickStart(g, cx, cz) ==
    [chunks |-> g.chunks, scene |-> g.scene, nextGid |-> g.nextGid,
     playerStructures |-> g.playerStructures, vehicles |-> g.vehicles,
     heap |-> g.heap,
     outcome |-> "returned", calls |-> 0, invoked |-> {}, created |-> {},
     unloaded |-> {}, failed |-> NoKey, cx |-> cx, cz |-> cz, loaded |-> g.chunks]

\* updateChunks with the unload pass written before the load loops
updateChunksUnloadFirst(g, mx, mz, failAt) ==
    LET cx == FloorDiv(mx, chunkSize)
        cz == FloorDiv(mz, chunkSize)
        st0 == TickStart(g, cx, cz)
        st1 == UnloadPass(st0, cx, cz, DOMAIN st0.chunks)
    IN [LoadPass(st1, cx, cz, 0, failAt) EXCEPT !.loaded = st0.chunks]

\* updateChunks() on the globals g with the player mesh at (mx, mz)
updateChunks(g, mx, mz, failAt) ==
    LET cx == FloorDiv(mx, chunkSize)
        cz == FloorDiv(mz, chunkSize)
        st0 == TickStart(g, cx, cz)
        st1 == LoadPass(st0, cx, cz, 0, failAt)
        st2 == [st1 EXCEPT !.loaded = st1.chunks]
    IN IF st2.outcome = "threw" THEN st2
       ELSE UnloadPass(st2, cx, cz, DOMAIN st2.chunks)

Globals == [chunks |-> chunks, scene |-> scene, nextGid |-> nextGid,
            playerStructures |-> playerStructures, vehicles |-> vehicles, heap |-> heap]

\* the record of a tick: what it did, the Map it started from, the Map
\* between its two passes, and the outcome of the tick before it
TickOf(st) ==
    [outcome |-> st.outcome, invoked |-> st.invoked, created |-> st.created,
     unloaded |-> st.unloaded, failed |-> st.failed, cx |-> st.cx, cz |-> st.cz,
     before |-> chunks, loaded |-> st.loaded,
     prev |-> [outcome |-> tick.outcome, failed |-> tick.failed,
               cx |-> tick.cx, cz |-> tick.cz]]

NoTick == [outcome |-> "none", invoked |-> {}, created |-> {}, unloaded |-> {},
           failed |-> NoKey, cx |-> 0, cz |-> 0, before |-> <<>>, loaded |-> <<>>,
           prev |-> [outcome |-> "none", failed |-> NoKey, cx |-> 0, cz |-> 0]]

\* the globals after an updateChunks() call that left st
ChunksDone(st) ==
    /\ chunks' = st.chunks
    /\ scene' = st.scene
    /\ nextGid' = st.nextGid
    /\ playerStructures' = st.playerStructures
    /\ vehicles' = st.vehicles
    /\ tick' = TickOf(st)

----------------------------------------------------------------------------
(* Player movement *)

updatePlayer(p, ks, delta) ==
    LET speed == 10 * delta
        z1 == IF ks["w"] THEN p.mz - speed ELSE p.mz
        z2 == IF ks["s"] THEN z1 + speed ELSE z1
        x1 == IF ks["a"] THEN p.mx - speed ELSE p.mx
        x2 == IF ks["d"] THEN x1 + speed ELSE x1
    IN [p EXCEPT !.mx = x2, !.mz = z2]

----------------------------------------------------------------------------
(* Vehicles and the structure registry *)

\* a new Vector3 / Euler holding v
Alloc(hp, v) == [heap |-> Append(hp, v), ref |-> Len(hp) + 1]

\* Clone returning the object itself, as storing mesh.position would
CloneAlias(hp, ref) == [heap |-> hp, ref |-> ref]

\* Vector3.clone() / Euler.clone(): a new object with the same components
Clone(hp, ref) == [heap |-> Append(hp, hp[ref]), ref |-> Len(hp) + 1]

\* Math.random() + "" for the r-th value the generator can return
RandomToString(r) == <<"0", ".">> \o NatToString(r)

\* Date.now() + "_" + Math.random()
StructureId(t, r) == NatToString(t) \o <<"_">> \o RandomToString(r)

HasId(ps, id) == \E i \in 1..Len(ps) : ps[i].id = id

\* MapSet as an array push: a present key gets a second entry
MapSetAppend(ps, id, val) == Append(ps, [id |-> id, val |-> val])

\* Map.prototype.set: a present key keeps its place and gets the new value
MapSet(ps, id, val) ==
    IF HasId(ps, id)
    THEN [i \in 1..Len(ps) |-> IF ps[i].id = id THEN [id |-> id, val |-> val] ELSE ps[i]]
    ELSE Append(ps, [id |-> id, val |-> val])

\* saveStructure(mesh) with Date.now() = t and Math.random() the r-th value
saveStructure(ps, hp, mesh, t, r) ==
    LET pos == Clone(hp, mesh.position)
        rot == Clone(pos.heap, mesh.rotation)
        val == [geometry |-> mesh.geometry, material |-> mesh.material,
                position |-> pos.ref, rotation |-> rot.ref]
    IN [ps |-> MapSet(ps, StructureId(t, r), val), heap |-> rot.heap]

\* the mesh buildVehicle(type) constructs; rotation z is in units of PI/2
NewMesh(hp, p, type) ==
    LET pos == Alloc(hp, IF type = "plane" THEN <<p.x + 2, p.y + 100, p.z>>
                                           ELSE <<p.x + 2, 25, p.z>>)
        rot == Alloc(pos.heap, IF type = "plane" THEN <<0, 0, 0>> ELSE <<0, 0, 1>>)
    IN [heap |-> rot.heap,
        mesh |-> [type |-> type,
                  geometry |-> IF type = "plane" THEN "BoxGeometry" ELSE "CylinderGeometry",
                  material |-> IF type = "plane" THEN "ffff00" ELSE "0000ff",
                  position |-> pos.ref, rotation |-> rot.ref]]

\* animateVehicles(delta): every vehicle's position.y moves by bob
animateVehicles(hp, vs, bob) ==
    [i \in 1..Len(hp) |->
        IF \E k \in 1..Len(vs) : vs[k].position = i
        THEN <<hp[i][1], hp[i][2] + bob, hp[i][3]>>
        ELSE hp[i]]

----------------------------------------------------------------------------
(* Chunk contents.  Lengths are in thousandths of a world unit.  The Map    *)
(* and the scene hold a group by reference and nothing reads its children   *)
(* after createChunk(), so the children are followed here, one Mesh at a    *)
(* time, and createChunk above keeps the group's identity only.             *)

NumBlocks == 50
NumBuildings == 3

\* Math.random() returning k/RandomGrid, rounded down to an even number of
\* thousandths so that the halves below are exact
Random(k) == 2 * ((500 * k) \div RandomGrid)

\* lines 123-124, 141, 143: (Math.random()-0.5)*chunkSize + c*chunkSize
Offset(c, k) == (Random(k) - 500) * chunkSize + c * chunkSize * 1000

\* lines 122-131: BoxGeometry(1, y, 1) at (x, y/2, z)
Block(cx, cz, kx, kz, ky) ==
    LET y == Random(ky) * 2
    IN [position |-> <<Offset(cx, kx), y \div 2, Offset(cz, kz)>>, height |-> y]

\* lines 133-146: BoxGeometry(w, h, d) at (x, h/2, z); w and d enter neither
\* the position nor the height
Building(cx, cz, kh, kx, kz) ==
    LET h == Random(kh) * 5 + 3000
    IN [position |-> <<Offset(cx, kx), h \div 2, Offset(cz, kz)>>, height |-> h]

NoPrimitive == [kind |-> "none", cx |-> 0, cz |-> 0, i |-> 0,
                position |-> <<0, 0, 0>>, height |-> 0]

----------------------------------------------------------------------------
(* State machine *)

\* init() up to line 47: the scene holds the lights and the player mesh
Init ==
    /\ pc = "init"
    /\ player = [x |-> 0, y |-> 200, z |-> 0, mx |-> 0, my |-> 200, mz |-> 0]
    /\ keys = [k \in MoveKeys |-> FALSE]
    /\ chunks = <<>>
    /\ scene = [groups |-> {}, meshes |-> {}]
    /\ nextGid = 1
    /\ vehicles = <<>>
    /\ heap = <<>>
    /\ playerStructures = <<>>
    /\ now = 0
    /\ frames = 0
    /\ failures = 0
    /\ tick = NoTick
    /\ primitive = NoPrimitive

\* the updateChunks() call of init(), line 50, returning
InitLoad ==
    /\ pc = "init"
    /\ LET st == updateChunks(Globals, player.mx, player.mz, 0)
       IN ChunksDone(st) /\ heap' = st.heap
    /\ pc' = "running"
    /\ UNCHANGED <<player, keys, now, frames, failures, primitive>>

\* the updateChunks() call of init() throwing: the module stops at line 13,
\* animate() is never called and keys / vehicles are never bound, so that
\* every later handler call stops at its first statement
InitLoadThrows ==
    /\ pc = "init"
    /\ failures < MaxFailures
    /\ \E failAt \in 1..MaxFailIndex :
         LET st == updateChunks(Globals, player.mx, player.mz, failAt)
         IN st.outcome = "threw" /\ ChunksDone(st) /\ heap' = st.heap
    /\ pc' = "aborted"
    /\ failures' = failures + 1
    /\ UNCHANGED <<player, keys, now, frames, primitive>>

\* animate(): one frame in which updateChunks() returns; cap bounds the frames
Frame(cap) ==
    /\ pc = "running"
    /\ frames < cap
    /\ \E delta \in Deltas :
         LET p == updatePlayer(player, keys, delta)
             st == updateChunks(Globals, p.mx, p.mz, 0)
         IN /\ player' = p
            /\ ChunksDone(st)
            /\ \E bob \in Bobs : heap' = animateVehicles(st.heap, st.vehicles, bob)
    /\ frames' = frames + 1
    /\ now' = now + 1
    /\ UNCHANGED <<pc, keys, failures, primitive>>

\* animate(): one frame in which createChunk() throws; the next frame is
\* already requested (line 171), the rest of this one is skipped
FrameThrows(cap) ==
    /\ pc = "running"
    /\ frames < cap
    /\ failures < MaxFailures
    /\ \E delta \in Deltas, failAt \in 1..MaxFailIndex :
         LET p == updatePlayer(player, keys, delta)
             st == updateChunks(Globals, p.mx, p.mz, failAt)
         IN /\ st.outcome = "threw"
            /\ player' = p
            /\ ChunksDone(st)
            /\ heap' = st.heap
    /\ frames' = frames + 1
    /\ now' = now + 1
    /\ failures' = failures + 1
    /\ UNCHANGED <<pc, keys, primitive>>

\* KeyDown applying the movement of the key in the handler itself
KeyDownMoves(k) ==
    /\ pc = "running"
    /\ keys' = [keys EXCEPT ![k] = TRUE]
    /\ player' = updatePlayer(player, [j \in MoveKeys |-> j = k], 1)
    /\ UNCHANGED <<pc, chunks, scene, nextGid, vehicles, heap,
                   playerStructures, now, frames, failures, tick, primitive>>

\* handleKeys for a key other than "p" and "b"
KeyDown(k) ==
    /\ pc = "running"
    /\ keys' = [keys EXCEPT ![k] = TRUE]
    /\ UNCHANGED <<pc, player, chunks, scene, nextGid, vehicles, heap,
                   playerStructures, now, frames, failures, tick, primitive>>

\* handleKeys for "p" or "b": buildVehicle(type); keys["p"], keys["b"] are never read
KeyDownBuild(k) ==
    /\ pc = "running"
    /\ Len(vehicles) < MaxBuilds
    /\ \E r \in 1..NumRandoms :
         LET m == NewMesh(heap, player, IF k = "p" THEN "plane" ELSE "boat")
             mid == Len(vehicles) + 1
             s == saveStructure(playerStructures, m.heap, m.mesh, now, r)
         IN /\ scene' = [scene EXCEPT !.meshes = @ \cup {mid}]
            /\ vehicles' = Append(vehicles, m.mesh)
            /\ playerStructures' = s.ps
            /\ heap' = s.heap
    /\ UNCHANGED <<pc, player, keys, chunks, nextGid, now, frames, failures, tick,
                   primitive>>

\* handleKeysUp
KeyUp(k) ==
    /\ pc = "running"
    /\ keys' = [keys EXCEPT ![k] = FALSE]
    /\ UNCHANGED <<pc, player, chunks, scene, nextGid, vehicles, heap,
                   playerStructures, now, frames, failures, tick, primitive>>

\* the input collaborator holds and releases any of the movement keys
Next ==
    \/ InitLoad
    \/ InitLoadThrows
    \/ Frame(MaxFrames)
    \/ FrameThrows(MaxFrames)
    \/ \E k \in MoveKeys : KeyDown(k)
    \/ \E k \in MoveKeys : KeyUp(k)

Spec == Init /\ [][Next]_vars

\* the input collaborator walks toward -x and +z, over more frames
WalkKeys == {"a", "s"}

NextWalk ==
    \/ InitLoad
    \/ InitLoadThrows
    \/ Frame(MaxWalkFrames)
    \/ FrameThrows(MaxWalkFrames)
    \/ \E k \in WalkKeys : KeyDown(k)
    \/ \E k \in WalkKeys : KeyUp(k)

SpecWalk == Init /\ [][NextWalk]_vars

\* the input collaborator builds vehicles and moves toward +x
NextBuild ==
    \/ InitLoad
    \/ Frame(MaxFrames)
    \/ KeyDown("d")
    \/ KeyUp("d")
    \/ \E k \in BuildKeys : KeyDownBuild(k)

SpecBuild == Init /\ [][NextBuild]_vars

\* the input collaborator builds vehicles and moves toward +z, and
\* createChunk() can throw
NextInput ==
    \/ InitLoad
    \/ Frame(MaxFrames)
    \/ FrameThrows(MaxFrames)
    \/ KeyDown("s")
    \/ KeyUp("s")
    \/ \E k \in BuildKeys : KeyDownBuild(k)

SpecInput == Init /\ [][NextInput]_vars

\* the input collaborator walks toward +x and back toward -x
ReturnKeys == {"a", "d"}

NextReturn ==
    \/ InitLoad
    \/ Frame(MaxWalkFrames)
    \/ \E k \in ReturnKeys : KeyDown(k)
    \/ \E k \in ReturnKeys : KeyUp(k)

SpecReturn == Init /\ [][NextReturn]_vars

\* createChunk(cx, cz, id), line 120: the empty group
createChunkGroup(cx, cz) ==
    /\ primitive.kind = "none"
    /\ primitive' = [NoPrimitive EXCEPT !.kind = "group", !.cx = cx, !.cz = cz]
    /\ UNCHANGED <<pc, player, keys, chunks, scene, nextGid, vehicles, heap,
                   playerStructures, now, frames, failures, tick>>

\* one iteration of the loop of lines 122-131
createChunkBlock ==
    /\ \/ primitive.kind = "group"
       \/ primitive.kind = "block" /\ primitive.i < NumBlocks
    /\ \E kx, kz, ky \in 0..(RandomGrid - 1) :
         LET b == Block(primitive.cx, primitive.cz, kx, kz, ky)
         IN primitive' = [kind |-> "block", cx |-> primitive.cx, cz |-> primitive.cz,
                          i |-> IF primitive.kind = "group" THEN 1 ELSE primitive.i + 1,
                          position |-> b.position, height |-> b.height]
    /\ UNCHANGED <<pc, player, keys, chunks, scene, nextGid, vehicles, heap,
                   playerStructures, now, frames, failures, tick>>

\* one iteration of the loop of lines 133-146
createChunkBuilding ==
    /\ \/ primitive.kind = "block" /\ primitive.i = NumBlocks
       \/ primitive.kind = "building" /\ primitive.i < NumBuildings
    /\ \E kh, kx, kz \in 0..(RandomGrid - 1) :
         LET b == Building(primitive.cx, primitive.cz, kh, kx, kz)
         IN primitive' = [kind |-> "building", cx |-> primitive.cx, cz |-> primitive.cz,
                          i |-> IF primitive.kind = "block" THEN 1 ELSE primitive.i + 1,
                          position |-> b.position, height |-> b.height]
    /\ UNCHANGED <<pc, player, keys, chunks, scene, nextGid, vehicles, heap,
                   playerStructures, now, frames, failures, tick>>

\* the body of one createChunk() call, Mesh by Mesh
NextGen ==
    \/ \E c \in GenCoords : createChunkGroup(c[1], c[2])
    \/ createChunkBlock
    \/ createChunkBuilding

SpecGen == Init /\ [][NextGen]_vars

----------------------------------------------------------------------------
(* Properties of the chunk registry *)

\* the keys "{x}_{z}" of the load window around chunk (cx, cz)
WindowKeys(cx, cz) ==
    {KeyOf(x, z) : x \in (cx - loadedRadius)..(cx + loadedRadius),
                   z \in (cz - loadedRadius)..(cz + loadedRadius)}

\* the text of the integers -2..2, written out
Literal(n) ==
    CASE n = -2 -> <<"-", "2">>
      [] n = -1 -> <<"-", "1">>
      [] n = 0 -> <<"0">>
      [] n = 1 -> <<"1">>
      [] n = 2 -> <<"2">>

\* C1: when updateChunks() returns, the key set of the registry is exactly
\* the set of keys within Chebyshev distance loadedRadius of the player's
\* chunk, whatever the registry was before; with the player at world (0,0)
\* these are the 25 keys with cx, cz in -2..2.
C1_RegistryIsWindow ==
    tick.outcome = "returned" =>
        /\ DOMAIN chunks = WindowKeys(tick.cx, tick.cz)
        /\ Cardinality(DOMAIN chunks) = WindowSide * WindowSide
        /\ (player.mx = 0 /\ player.mz = 0) =>
              DOMAIN chunks = {Literal(x) \o <<"_">> \o Literal(z) : x \in -2..2, z \in -2..2}

\* a tick returned after the tick before it had thrown, and it both created
\* and unloaded chunks
C1_Witness ==
    /\ tick.outcome = "returned"
    /\ tick.prev.outcome = "threw"
    /\ tick.created # {}
    /\ tick.unloaded # {}
    /\ DOMAIN tick.before # WindowKeys(tick.prev.cx, tick.prev.cz)

\* C2: a second updateChunks() call with the player in the same chunk as in
\* the call before, which returned, invokes createChunk for no key and
\* unloadChunk for no key and leaves the registry, keys and instances, as it was.
C2_Idempotent ==
    [][(/\ frames' = frames + 1
        /\ tick.outcome = "returned"
        /\ tick'.cx = tick.cx
        /\ tick'.cz = tick.cz)
       => (/\ tick'.outcome = "returned"
           /\ tick'.invoked = {}
           /\ tick'.unloaded = {}
           /\ chunks' = chunks)]_vars

\* two ticks in succession returned with the player in the same chunk, the
\* player having moved inside the chunk in between
C2_Witness ==
    /\ frames >= 1
    /\ tick.outcome = "returned"
    /\ tick.prev.outcome = "returned"
    /\ tick.prev.cx = tick.cx
    /\ tick.prev.cz = tick.cz
    /\ player.mx = 10

\* C3: when the registry is the load window around (cx, cz) and the player
\* has moved to chunk (cx+1, cz), updateChunks() creates exactly the 2R+1
\* chunks of column cx+1+R and unloads exactly the chunks farther than R
\* from (cx+1, cz), which are the 2R+1 chunks of column cx-R.
C3_StepPlusX ==
    (/\ tick.outcome = "returned"
     /\ tick.prev.outcome = "returned"
     /\ tick.cx = tick.prev.cx + 1
     /\ tick.cz = tick.prev.cz)
    => /\ tick.created = {KeyOf(tick.cx + loadedRadius, z) :
                             z \in (tick.cz - loadedRadius)..(tick.cz + loadedRadius)}
       /\ tick.invoked = tick.created
       /\ tick.unloaded = {KeyOf(tick.prev.cx - loadedRadius, z) :
                              z \in (tick.cz - loadedRadius)..(tick.cz + loadedRadius)}
       /\ tick.unloaded = {k \in DOMAIN tick.before :
                              \/ Abs(tick.before[k].cx - tick.cx) > loadedRadius
                              \/ Abs(tick.before[k].cz - tick.cz) > loadedRadius}
       /\ Cardinality(tick.created) = WindowSide
       /\ Cardinality(tick.unloaded) = WindowSide
       /\ \A k \in DOMAIN tick.before \ tick.unloaded :
              k \in DOMAIN chunks /\ chunks[k] = tick.before[k]

\* the player stepped from chunk (0, 0) to chunk (1, 0) and the tick returned
C3_Witness ==
    /\ tick.outcome = "returned"
    /\ tick.prev.outcome = "returned"
    /\ tick.prev.cx = 0
    /\ tick.cx = 1
    /\ tick.cz = tick.prev.cz
    /\ player.mx = 50
    /\ DOMAIN tick.before = WindowKeys(0, 0)

\* the columns x of which every key "{x}_{z}", z in -2..2, satisfies P
Columns(P(_)) == {x \in -2..7 : \A z \in -2..2 : P(KeyOf(x, z))}

RetainedKey(k) == k \in DOMAIN tick.before /\ k \in DOMAIN chunks /\ chunks[k] = tick.before[k]
CreatedKey(k) == k \in tick.created
EvictedKey(k) == k \in tick.unloaded

\* the tick with the player at world (260, 0) that follows a tick with the
\* player in chunk (0, 0)
C4_Case ==
    /\ tick.outcome = "returned"
    /\ tick.prev.outcome = "returned"
    /\ tick.prev.cx = 0
    /\ tick.prev.cz = 0
    /\ player.mx = 260
    /\ player.mz = 0

\* C4 as claimed: after that tick the registry holds exactly the keys with
\* cx in 3..7 and cz in -2..2, 3 columns retained unmodified, 2 columns
\* newly generated and 2 columns evicted.
C4_ThreeColumnsRetained ==
    C4_Case =>
        /\ DOMAIN chunks = {KeyOf(x, z) : x \in 3..7, z \in -2..2}
        /\ Cardinality(Columns(RetainedKey)) = 3
        /\ Cardinality(Columns(CreatedKey)) = 2
        /\ Cardinality(Columns(EvictedKey)) = 2

\* C4 as amended: after that tick the registry holds exactly the keys with
\* cx in 3..7 and cz in -2..2; the windows around chunk (0,0) and chunk (5,0)
\* do not overlap, so no chunk is retained, all 5 columns 3..7 are newly
\* generated and all 5 columns -2..2 of the previous registry are evicted.
C4_NoColumnRetained ==
    C4_Case =>
        /\ tick.cx = 5 /\ tick.cz = 0
        /\ DOMAIN chunks = {KeyOf(x, z) : x \in 3..7, z \in -2..2}
        /\ Columns(RetainedKey) = {}
        /\ DOMAIN chunks \cap DOMAIN tick.before = {}
        /\ Columns(CreatedKey) = 3..7
        /\ Columns(EvictedKey) = -2..2
        /\ tick.unloaded = DOMAIN tick.before

C4_Witness ==
    /\ C4_Case
    /\ frames = 1
    /\ DOMAIN tick.before = {KeyOf(x, z) : x \in -2..2, z \in -2..2}

\* C8: every key of the registry is parsed back by split("_").map(Number)
\* to exactly the coordinates its chunk was generated with, negative ones
\* included, the key of the player's chunk is parsed back to the player's
\* chunk coordinate, and distinct chunks of the registry have distinct
\* coordinates.
C8_KeyRoundTrip ==
    /\ \A id \in DOMAIN chunks :
          ParseKey(id) = <<<<chunks[id].cx>>, <<chunks[id].cz>>>>
    /\ \A id1, id2 \in DOMAIN chunks :
          (chunks[id1].cx = chunks[id2].cx /\ chunks[id1].cz = chunks[id2].cz) => id1 = id2
    /\ tick.outcome # "none" =>
          /\ ParseKey(chunkID(player.mx, player.mz)) = <<<<tick.cx>>, <<tick.cz>>>>
          /\ ParseKey(KeyOf(tick.cx - loadedRadius, tick.cz + loadedRadius))
                = <<<<tick.cx - loadedRadius>>, <<tick.cz + loadedRadius>>>>

\* the registry holds chunks with negative and with two-digit coordinates
C8_Witness ==
    /\ tick.outcome = "returned"
    /\ \E id \in DOMAIN chunks : chunks[id].cx <= -10 /\ chunks[id].cz < 0
    /\ \E id \in DOMAIN chunks : chunks[id].cx < 0 /\ chunks[id].cz > 0

\* C9: the chunk coordinate updateChunks() computes is the k with
\* k*chunkSize <= x < (k+1)*chunkSize, on both axes and for negative
\* positions too, so that a position in [-chunkSize, 0) is in chunk -1, and
\* the window loaded is the one around that chunk.
C9_FloorNotTruncation ==
    tick.outcome # "none" =>
        /\ tick.cx * chunkSize <= player.mx /\ player.mx < (tick.cx + 1) * chunkSize
        /\ tick.cz * chunkSize <= player.mz /\ player.mz < (tick.cz + 1) * chunkSize
        /\ (-chunkSize <= player.mx /\ player.mx < 0) => tick.cx = -1
        /\ (-chunkSize <= player.mz /\ player.mz < 0) => tick.cz = -1
        /\ (tick.outcome = "returned" /\ -chunkSize <= player.mx /\ player.mx < 0
              /\ 0 <= player.mz /\ player.mz < chunkSize) =>
              /\ {<<"-", "3", "_", "0">>, <<"-", "1", "_", "0">>, <<"1", "_", "0">>}
                    \subseteq DOMAIN chunks
              /\ <<"2", "_", "0">> \notin DOMAIN chunks

\* a tick returned with the player at x = -10, strictly inside [-chunkSize, 0)
C9_Witness ==
    /\ tick.outcome = "returned"
    /\ player.mx = -10
    /\ player.mz = -10
    /\ tick.cx = -1
    /\ tick.cz = -1

\* C10: when createChunk() throws for a key, the key is absent from the
\* registry and no group of it is in the scene, and the next tick in whose
\* load window the key lies invokes createChunk() for it again.
C10_FailedChunkRetried ==
    /\ tick.outcome = "threw" =>
          /\ tick.failed \notin DOMAIN chunks
          /\ scene.groups = {chunks[k].gid : k \in DOMAIN chunks}
    /\ (/\ tick.prev.failed # NoKey
        /\ tick.prev.failed \in WindowKeys(tick.cx, tick.cz))
       => tick.prev.failed \in tick.invoked

----------------------------------------------------------------------------
(* Properties of the structure registry *)

\* the components of the position and of the rotation an entry holds
Snapshot(hp, e) == <<hp[e.val.position], hp[e.val.rotation]>>

\* C5: a tick, whatever it loads and unloads, leaves every entry of
\* playerStructures in place and unmodified, and removes no vehicle from the
\* vehicles list or from the scene, also when a structure stands on the
\* footprint of a chunk the tick unloads.
C5_StructuresSurviveUnload ==
    [][(frames' = frames + 1 \/ pc = "init")
       => (/\ playerStructures' = playerStructures
           /\ \A i \in 1..Len(playerStructures) :
                 Snapshot(heap', playerStructures[i]) = Snapshot(heap, playerStructures[i])
           /\ vehicles' = vehicles
           /\ scene'.meshes = scene.meshes
           /\ scene.meshes = 1..Len(vehicles))]_vars

\* a tick unloaded the chunk on whose footprint a structure built before
\* that tick stands
C5_Witness ==
    /\ tick.outcome = "returned"
    /\ Len(playerStructures) >= 1
    /\ \E r \in 1..NumRandoms : playerStructures[1].id = StructureId(0, r)
    /\ now >= 1
    /\ \E k \in tick.unloaded :
          /\ tick.before[k].cx * chunkSize <= heap[playerStructures[1].val.position][1]
          /\ heap[playerStructures[1].val.position][1] < (tick.before[k].cx + 1) * chunkSize
          /\ tick.before[k].cz * chunkSize <= heap[playerStructures[1].val.position][3]
          /\ heap[playerStructures[1].val.position][3] < (tick.before[k].cz + 1) * chunkSize

\* C6: a build leaves in playerStructures an entry whose position and
\* rotation are those of the mesh at that moment, and a frame, in which
\* animateVehicles() moves the meshes, changes no entry's position or rotation.
C6_SnapshotUnchanged ==
    [][/\ Len(vehicles') = Len(vehicles) + 1 =>
            \E i \in 1..Len(playerStructures') :
                Snapshot(heap', playerStructures'[i]) =
                    <<heap'[vehicles'[Len(vehicles')].position],
                      heap'[vehicles'[Len(vehicles')].rotation]>>
       /\ frames' = frames + 1 =>
            /\ playerStructures' = playerStructures
            /\ \A i \in 1..Len(playerStructures) :
                  Snapshot(heap', playerStructures[i]) = Snapshot(heap, playerStructures[i])]_vars

\* a plane was built and frames have since moved its mesh away from the
\* recorded position
C6_Witness ==
    /\ Len(vehicles) = 1
    /\ Len(playerStructures) = 1
    /\ frames >= 1
    /\ heap[playerStructures[1].val.position] = <<2, 300, 0>>
    /\ heap[vehicles[1].position][2] # 300

\* C7 as claimed: every build adds one new entry, so that after n builds
\* the registry holds n entries with distinct ids, the i-th being the
\* record of the i-th build.
C7_OneEntryPerBuild ==
    /\ Len(playerStructures) = Len(vehicles)
    /\ \A i, j \in 1..Len(playerStructures) :
          playerStructures[i].id = playerStructures[j].id => i = j
    /\ \A i \in 1..Len(playerStructures) :
          playerStructures[i].val.geometry = vehicles[i].geometry

\* C7 as amended: every build writes one entry under the id it draws from
\* Date.now() and Math.random(): a new entry at the end, the others
\* untouched, when the id is not yet a key; the value of the entry that
\* holds the id, in place, when it is.  The registry never holds an id
\* twice, and after n builds it holds at most n entries.
C7_EntryPerDistinctId ==
    [][Len(vehicles') = Len(vehicles) + 1 =>
         /\ \E r \in 1..NumRandoms :
              LET id == StructureId(now, r)
                  mesh == vehicles'[Len(vehicles')]
              IN \/ /\ ~HasId(playerStructures, id)
                    /\ Len(playerStructures') = Len(playerStructures) + 1
                    /\ SubSeq(playerStructures', 1, Len(playerStructures)) = playerStructures
                    /\ playerStructures'[Len(playerStructures')].id = id
                    /\ playerStructures'[Len(playerStructures')].val.geometry = mesh.geometry
                 \/ /\ HasId(playerStructures, id)
                    /\ Len(playerStructures') = Len(playerStructures)
                    /\ \A i \in 1..Len(playerStructures) :
                          /\ playerStructures'[i].id = playerStructures[i].id
                          /\ playerStructures[i].id # id =>
                                playerStructures'[i] = playerStructures[i]
                          /\ playerStructures[i].id = id =>
                                playerStructures'[i].val.geometry = mesh.geometry
         /\ \A i, j \in 1..Len(playerStructures') :
               playerStructures'[i].id = playerStructures'[j].id => i = j
         /\ Len(playerStructures') <= Len(vehicles')]_vars

\* two builds in the same clock tick drew the same id: the plane's record
\* was overwritten by the boat's
C7_Witness ==
    /\ Len(vehicles) = 2
    /\ Len(playerStructures) = 1
    /\ vehicles[1].type = "plane"
    /\ vehicles[2].type = "boat"
    /\ playerStructures[1].val.geometry = "CylinderGeometry"

----------------------------------------------------------------------------
(* Properties of the tick loop under generation failures *)

\* C11: a createChunk() failure never ends the tick loop: after a failure,
\* in the updateChunks() call of init() or in a frame of animate(), the next
\* frame is still scheduled, so that frames keep running.
C11_FailureNeverFatal ==
    failures > 0 => pc = "running"

----------------------------------------------------------------------------
(* Properties of the chunk contents *)

\* C12: every terrain block and every building createChunk(cx, cz) generates
\* has a horizontal position inside the chunk's own footprint,
\* cx*chunkSize <= x < (cx+1)*chunkSize and likewise for z, and stands with
\* its base at y = 0 (vertical centre = height/2).
C12_InsideFootprint ==
    primitive.kind \in {"block", "building"} =>
        /\ FloorDiv(primitive.position[1], chunkSize * 1000) = primitive.cx
        /\ FloorDiv(primitive.position[3], chunkSize * 1000) = primitive.cz
        /\ primitive.position[2] * 2 = primitive.height

\* C14: a createChunk() failure skips only the failed coordinate: the same
\* tick still creates every other missing chunk of the window and unloads
\* every chunk outside it, so that the tick ends with a registry that holds
\* the window except the failed key and nothing else.
C14_FailureSkipsOneKey ==
    tick.outcome = "threw" =>
        DOMAIN chunks = WindowKeys(tick.cx, tick.cz) \ {tick.failed}

----------------------------------------------------------------------------
(* Properties of the two passes of a tick *)

\* C13: in every tick the load pass is complete before any chunk is removed:
\* the Map the unload pass starts from holds the whole load window and every
\* chunk the tick started with; the chunks the tick created and the chunks
\* it unloaded are disjoint; and from the end of the load pass to the end of
\* the tick the Map holds the chunk of the player's own chunk coordinate,
\* which the unload pass never removes.
C13_LoadBeforeUnload ==
    /\ tick.created \cap tick.unloaded = {}
    /\ tick.outcome = "threw" => tick.unloaded = {} /\ tick.loaded = chunks
    /\ tick.outcome = "returned" =>
          /\ WindowKeys(tick.cx, tick.cz) \subseteq DOMAIN tick.loaded
          /\ DOMAIN tick.loaded = DOMAIN tick.before \cup tick.created
          /\ tick.unloaded \subseteq DOMAIN tick.loaded
          /\ chunks = Restrict(tick.loaded, DOMAIN tick.loaded \ tick.unloaded)
          /\ KeyOf(tick.cx, tick.cz) = chunkID(player.mx, player.mz)
          /\ KeyOf(tick.cx, tick.cz) \in DOMAIN tick.loaded
          /\ KeyOf(tick.cx, tick.cz) \notin tick.unloaded
          /\ KeyOf(tick.cx, tick.cz) \in DOMAIN chunks

\* a tick created the chunk under the player, which was missing, and then
\* unloaded chunks
C13_Witness ==
    /\ tick.outcome = "returned"
    /\ frames >= 1
    /\ KeyOf(tick.cx, tick.cz) \in tick.created
    /\ tick.unloaded # {}
    /\ Cardinality(DOMAIN tick.loaded) > WindowSide * WindowSide

----------------------------------------------------------------------------
(* Properties of the chunk instances *)

\* C15: createChunk() is called only for keys absent from the registry: a
\* key of the registry that is inside the window of the next tick is not
\* generated again and keeps the very same instance, and every instance a
\* tick creates, also for a key that was evicted earlier and re-enters the
\* window, is a new one, different from every instance created before.
C15_InstanceRetainedOrNew ==
    [][(frames' = frames + 1 \/ pc = "init") =>
         /\ tick'.invoked \cap DOMAIN chunks = {}
         /\ \A k \in DOMAIN chunks \cap WindowKeys(tick'.cx, tick'.cz) :
               /\ k \notin tick'.invoked
               /\ k \in DOMAIN chunks'
               /\ chunks'[k] = chunks[k]
         /\ \A k \in tick'.created :
               /\ k \in DOMAIN chunks'
               /\ chunks'[k].gid >= nextGid
               /\ chunks'[k].gid < nextGid'
               /\ \A j \in DOMAIN chunks : chunks[j].gid < chunks'[k].gid
         /\ \A j, k \in DOMAIN chunks' : chunks'[j].gid = chunks'[k].gid => j = k]_vars

\* the player went from chunk (0,0) to chunk (1,0) and back: "-2_0", which
\* the first load created and the step to (1,0) evicted, is in the registry
\* again, with an instance created by the last tick, and "0_0" still has
\* the instance of the first load
C15_Witness ==
    /\ frames = 2
    /\ tick.outcome = "returned"
    /\ tick.prev.cx = 1
    /\ tick.cx = 0
    /\ KeyOf(-2, 0) \in tick.created
    /\ KeyOf(-2, 0) \notin DOMAIN tick.before
    /\ chunks[KeyOf(-2, 0)].gid > WindowSide * WindowSide + WindowSide
    /\ chunks[KeyOf(0, 0)].gid <= WindowSide * WindowSide

\* C16: at the end of every tick the chunk groups attached to the scene are
\* exactly the instances the registry holds, each under one key only, and a
\* chunk the tick unloaded has lost its key and its place in the scene in
\* that same tick.
C16_SceneMatchesRegistry ==
    /\ scene.groups = {chunks[k].gid : k \in DOMAIN chunks}
    /\ \A j, k \in DOMAIN chunks : chunks[j].gid = chunks[k].gid => j = k
    /\ Cardinality(scene.groups) = Cardinality(DOMAIN chunks)
    /\ \A k \in tick.unloaded :
          /\ k \in DOMAIN tick.loaded
          /\ k \notin DOMAIN chunks
          /\ tick.loaded[k].gid \notin scene.groups

\* a tick, the second frame of a walk, created chunks and unloaded chunks
\* that an earlier frame had created
C16_Witness ==
    /\ frames = 2
    /\ tick.outcome = "returned"
    /\ tick.prev.outcome = "returned"
    /\ tick.created # {}
    /\ \E k \in tick.unloaded : tick.loaded[k].gid > WindowSide * WindowSide

----------------------------------------------------------------------------
(* Properties of the input handlers *)

\* C17: a build spawns the vehicle, and records its structure, relative to
\* the player's current position, the one updatePlayer() moves and
\* updateChunks() reads: the mesh and the recorded structure have x equal
\* to the player's x + 2 and z equal to the player's z, also after the
\* player has moved.
C17_BuiltAtCurrentPosition ==
    [][Len(vehicles') = Len(vehicles) + 1 =>
         /\ heap'[vehicles'[Len(vehicles')].position][1] = player.mx + 2
         /\ heap'[vehicles'[Len(vehicles')].position][3] = player.mz
         /\ \E i \in 1..Len(playerStructures') :
               /\ heap'[playerStructures'[i].val.position][1] = player.mx + 2
               /\ heap'[playerStructures'[i].val.position][3] = player.mz]_vars

\* the key set of the load window around the chunk the position p is in
WindowAt(p) == WindowKeys(FloorDiv(p.mx, chunkSize), FloorDiv(p.mz, chunkSize))

\* what C18 says of every step: an input event between frames (keydown,
\* keyup, a build) changes neither the player's position nor the registry;
\* the position changes in frames only and the registry in updateChunks()
\* only, which reads the position updatePlayer() has left in that frame
InputLeavesPositionAndRegistry ==
    /\ (pc = "running" /\ frames' = frames) => (player' = player /\ chunks' = chunks)
    /\ player' # player => frames' = frames + 1
    /\ chunks' # chunks => (frames' = frames + 1 \/ pc = "init")
    /\ frames' = frames + 1 =>
          /\ tick'.cx = FloorDiv(player'.mx, chunkSize)
          /\ tick'.cz = FloorDiv(player'.mz, chunkSize)
          /\ tick'.before = chunks

----------------------------------------------------------------------------
(* Properties of the registry size *)

\* C19: however far the player moves between ticks, the registry holds
\* exactly (2*loadedRadius+1)^2 chunks at the end of every tick and never
\* more than 2*(2*loadedRadius+1)^2 inside a tick, between the load pass
\* and the unload pass.
C19_RegistryBounded ==
    tick.outcome # "none" =>
        /\ Cardinality(DOMAIN chunks) = WindowSide * WindowSide
        /\ Cardinality(DOMAIN tick.loaded) <= 2 * WindowSide * WindowSide

====
